---------------------------- MODULE Spec2Model ----------------------------
(***************************************************************************)
(* A state-machine model of the example programs of the repository.  Each  *)
(* example is an independent program; a behaviour runs the programs of one *)
(* suite (one chapter topic) against one environment (files, directory,    *)
(* process arguments, environment variables) chosen in Init.              *)
(*                                                                         *)
(* Text is modelled as sequences of one-character strings where the code   *)
(* inspects characters (trim, parse, len), and as TLA+ strings where it    *)
(* only prints.                                                            *)
(***************************************************************************)
EXTENDS Integers, Sequences, FiniteSets

VARIABLES
    suite,      \* the group of example programs this behaviour runs
    pc,         \* pc[p]: position of program p ("idle" when not in the suite)
    stdout,     \* stdout[p]: lines program p printed with println!
    stderr,     \* stderr[p]: lines program p printed with eprintln! (or clap)
    exitCode,   \* exitCode[p]: process exit status, NoExit while running
    \* --- chapter-5/flexi_logger: the logs/ directory and the loop counter
    rotated,    \* rotated log files, oldest first: [stamp, size]
    active,     \* the file currently written: <<>> or <<[size]>>
    written,    \* number of info! records written so far (the loop's i)
    clock,      \* number of rotations so far (orders the timestamps)
    duplicated, \* number of records duplicated to stdout
    \* --- chapter-1/file_collector
    dir,        \* ./sample_dir: [readable, entries]
    files,      \* the Vec<DirEntry> get_files builds, then display_files gets
    cursor,     \* directory entries the read_dir iterator has yielded
    getFiles,   \* what get_files returned: "none", "Ok" or "Err"
    shown,      \* files display_files has visited
    \* --- chapter-5/tracing span.rs
    spanStack,  \* the subscriber's stack of entered spans, outermost first
    spanLog,    \* what the subscriber saw: enter, exit and event records
    \* --- chapter-3 file reading examples
    dataFile,   \* data.txt: [state, contents]
    handles,    \* handles[p]: File values program p holds open
    buffer,     \* buffer[p]: the String read_to_string filled
    steps,      \* steps[p]: the fallible steps the function attempted
    result,     \* result[p]: what the function returned, NoResult before
    \* --- chapter-4 command line examples
    argv,       \* process arguments: [name, uppercase, config]
    envVar,     \* the CONFIG_PATH environment variable: [state, value]
    existing,   \* the paths that exist in the file system
    cli,        \* the Cli struct clap built for the validation example
    configPath, \* configPath[p]: the config_path local of program p
    \* --- chapter-4 greet-cli and the chapter-1 / chapter-2 function demos
    input,      \* what the suite's programs are given (arguments, operands)
    args,       \* the Args struct clap built for greet-cli
    iter,       \* the next value of the range iterator of greet-cli's loop
    output      \* output[p]: the value the function of program p returned

loggerVars == <<rotated, active, written, clock, duplicated>>
collectorVars == <<dir, files, cursor, getFiles, shown>>
procVars == <<suite, pc, stdout, stderr, exitCode>>
spanVars == <<spanStack, spanLog>>
fileVars == <<dataFile, handles, buffer, steps, result>>
cliVars == <<argv, envVar, existing, cli, configPath>>
demoVars == <<input, args, iter, output>>
vars ==
    <<procVars, loggerVars, collectorVars, spanVars, fileVars, cliVars,
      demoVars>>

otherThanLogger == <<collectorVars, spanVars, fileVars, cliVars, demoVars>>
otherThanCollector == <<loggerVars, spanVars, fileVars, cliVars, demoVars>>
otherThanSpan == <<loggerVars, collectorVars, fileVars, cliVars, demoVars>>
otherThanFile == <<loggerVars, collectorVars, spanVars, cliVars, demoVars>>
otherThanCli == <<loggerVars, collectorVars, spanVars, fileVars, demoVars>>
otherThanDemo ==
    <<loggerVars, collectorVars, spanVars, fileVars, cliVars>>

NumberPrograms == {"custom_error", "without_box_dyn", "context"}
ContentsPrograms == {"result_question", "result_without_question"}

ConfigPrograms == {"var", "var_override"}

\* greet-cli and the function demos; each is a suite of its own
DemoPrograms ==
    {"greet_cli", "partition_odd", "partition_strings", "sort_by",
     "sort_closure", "fold_strings", "and_then", "or_else", "unwrap_or",
     "map_err", "my_rand_project", "rand_test", "core_lib",
     "my_user_library", "and_then_result"}

Programs ==
    {"flexi_logger", "file_collector", "span", "validation"}
    \cup NumberPrograms \cup ContentsPrograms \cup ConfigPrograms
    \cup DemoPrograms

NoExit == -1

Suites ==
    {"logging", "collector", "tracing", "read_number", "read_contents",
     "validation", "config"} \cup DemoPrograms

ProgramsOf(s) ==
    CASE s = "logging" -> {"flexi_logger"}
      [] s = "collector" -> {"file_collector"}
      [] s = "tracing" -> {"span"}
      [] s = "read_number" -> NumberPrograms
      [] s = "read_contents" -> ContentsPrograms
      [] s = "validation" -> {"validation"}
      [] s = "config" -> ConfigPrograms
      [] OTHER -> {s}

\* println!/eprintln! of program p
Println(p, lines) == stdout' = [stdout EXCEPT ![p] = @ \o lines]
Eprintln(p, lines) == stderr' = [stderr EXCEPT ![p] = @ \o lines]

\* program p moves on to position l
Goto(p, l) == pc' = [pc EXCEPT ![p] = l]

\* main of program p returns (), the process exits with status 0
MainReturns(p) ==
    /\ pc' = [pc EXCEPT ![p] = "done"]
    /\ exitCode' = [exitCode EXCEPT ![p] = 0]

-----------------------------------------------------------------------------
(* Text helpers                                                            *)

Digit == <<"0", "1", "2", "3", "4", "5", "6", "7", "8", "9">>

RECURSIVE NatToString(_)
NatToString(n) ==
    IF n < 10 THEN Digit[n + 1]
    ELSE NatToString(n \div 10) \o Digit[(n % 10) + 1]

\* Display of an integer, as "{}" formats it
IntToString(n) == IF n < 0 THEN "-" \o NatToString(-n) ELSE NatToString(n)

-----------------------------------------------------------------------------
(* chapter-5/flexi_logger                                                  *)
(*                                                                         *)
(* main configures flexi_logger and writes 10,000 info records and one     *)
(* warn record.  Rotation and cleanup are the library's, modelled by what  *)
(* the options passed to rotate() mean: the size is checked before a       *)
(* record is written, the file is renamed with a timestamp, and the        *)
(* cleanup runs within the log call that rotated.  logs/ is empty when the *)
(* program starts.  File names are modelled by their kind only: rotated    *)
(* files carry a timestamp, the active file does not.                      *)

RotateSize == 10000
KeepLogFiles == 5
NumRecords == 10000

\* module path flexi_logger prints in its default line format
LogModule == "myapp"

\* "<LEVEL> [<module>] <message>" plus the line feed
LogLineBytes(level, msg) ==
    Len(level) + Len(" [") + Len(LogModule) + Len("] ") + Len(msg) + 1

InfoMessage(i) == "This is log entry number " \o IntToString(i)

WarnMessage == "Application has finished logging."

\* a cleanup that is off by one and leaves one rotated file too many
Cleanup_OffByOne(logs) ==
    IF Len(logs) > KeepLogFiles + 1
    THEN SubSeq(logs, Len(logs) - KeepLogFiles, Len(logs))
    ELSE logs

\* Cleanup::KeepLogFiles(n): of the rotated files only the n newest stay
Cleanup(logs) ==
    IF Len(logs) > KeepLogFiles
    THEN SubSeq(logs, Len(logs) - KeepLogFiles + 1, Len(logs))
    ELSE logs

\* a size criterion that lets the file grow to twice the configured size
RotationNecessary_Late == active # <<>> /\ active[1].size > 2 * RotateSize

\* Criterion::Size(n): the active file is rotated once its size exceeds n
RotationNecessary == active # <<>> /\ active[1].size > RotateSize

\* one record goes to the log file: rotate (rename with a timestamp, clean
\* up, open a fresh file) when the size criterion says so, then append
WriteRecord(bytes) ==
    IF RotationNecessary
    THEN /\ rotated' = Cleanup(Append(rotated,
                          [stamp |-> clock + 1, size |-> active[1].size]))
         /\ clock' = clock + 1
         /\ active' = <<[size |-> bytes]>>
    ELSE /\ active' = <<[size |-> active[1].size + bytes]>>
         /\ UNCHANGED <<rotated, clock>>

\* Logger::try_with_str("info") ... .start(): the log file is created
LoggerStart ==
    /\ pc["flexi_logger"] = "start"
    /\ active' = <<[size |-> 0]>>
    /\ Goto("flexi_logger", "loop")
    /\ UNCHANGED <<suite, stdout, stderr, exitCode, rotated, written, clock,
                   duplicated, otherThanLogger>>

\* for i in 0..10000 { info!(...) }
LogInfo ==
    /\ pc["flexi_logger"] = "loop"
    /\ written < NumRecords
    /\ WriteRecord(LogLineBytes("INFO", InfoMessage(written)))
    /\ written' = written + 1
    /\ duplicated' = duplicated + 1
    /\ UNCHANGED <<procVars, otherThanLogger>>

\* warn!("Application has finished logging."), then main returns
LogWarn ==
    /\ pc["flexi_logger"] = "loop"
    /\ written = NumRecords
    /\ WriteRecord(LogLineBytes("WARN", WarnMessage))
    /\ duplicated' = duplicated + 1
    /\ MainReturns("flexi_logger")
    /\ UNCHANGED <<suite, stdout, stderr, written, otherThanLogger>>

LoggerNext == LoggerStart \/ LogInfo \/ LogWarn

-----------------------------------------------------------------------------
(* chapter-1/file_collector                                                *)

MaxEntries == 3

\* what the directory iterator can yield for one child of ./sample_dir:
\*   "error"  the iterator item is an Err
\*   "subdir" an entry whose path is not a regular file
\*   "file"   a regular file whose contents read_to_string returns
\*   "locked" a regular file whose read_to_string fails
EntryKinds == {"error", "subdir", "file", "locked"}

Entries(n) == [1..n -> EntryKinds]

DirStates ==
    {[readable |-> FALSE, entries |-> <<>>]} \cup
    {[readable |-> TRUE, entries |-> es] :
        es \in UNION {Entries(n) : n \in 0..MaxEntries}}

NoDir == [readable |-> FALSE, entries |-> <<>>]

\* the i-th child of the directory
PathOf(i) == "./sample_dir/f" \o IntToString(i)
ContentOf(i) == "contents of f" \o IntToString(i)

\* entry.path().is_file()
IsFile(kind) == kind \in {"file", "locked"}

\* fs::read_to_string(&file_path) succeeds
ReadsToString(kind) == kind = "file"

\* "{:?}" of a path
DebugPath(path) == "\"" \o path \o "\""

\* the three println! of the Ok arm of display_files
FileLines(i) ==
    << "File: " \o DebugPath(PathOf(i)),
       "Content:\n" \o ContentOf(i),
       "----------------------" >>

\* the eprintln! of the Err arm of display_files
FileErrorLine(i) ==
    "Error reading file " \o DebugPath(PathOf(i)) \o ": io error"

\* fs::read_dir(Path::new(dir_path))?
ReadDir ==
    /\ pc["file_collector"] = "start"
    /\ IF dir.readable
       THEN /\ Goto("file_collector", "collect")
            /\ UNCHANGED getFiles
       ELSE /\ getFiles' = "Err"
            /\ Goto("file_collector", "report")
    /\ UNCHANGED <<suite, stdout, stderr, exitCode, otherThanCollector,
                   dir, files, cursor, shown>>

\* one iteration of the for loop of get_files
NextEntry ==
    /\ pc["file_collector"] = "collect"
    /\ cursor < Len(dir.entries)
    /\ cursor' = cursor + 1
    /\ LET kind == dir.entries[cursor + 1] IN
       IF kind = "error"
       THEN \* entry? returns the error; the Vec built so far is dropped
            /\ getFiles' = "Err"
            /\ files' = <<>>
            /\ Goto("file_collector", "report")
       ELSE /\ files' = IF IsFile(kind)
                        THEN Append(files, [index |-> cursor + 1, kind |-> kind])
                        ELSE files
            /\ UNCHANGED <<getFiles, pc>>
    /\ UNCHANGED <<suite, stdout, stderr, exitCode, otherThanCollector,
                   dir, shown>>

\* the iterator is exhausted: Ok(files)
EndOfDir ==
    /\ pc["file_collector"] = "collect"
    /\ cursor = Len(dir.entries)
    /\ getFiles' = "Ok"
    /\ Goto("file_collector", "display")
    /\ UNCHANGED <<suite, stdout, stderr, exitCode, otherThanCollector,
                   dir, files, cursor, shown>>

\* main, Err(e) arm: eprintln!, then main returns
ReportError ==
    /\ pc["file_collector"] = "report"
    /\ Eprintln("file_collector", <<"Error collecting files: io error">>)
    /\ MainReturns("file_collector")
    /\ UNCHANGED <<suite, stdout, otherThanCollector, collectorVars>>

\* a display_files that returns at the first file it cannot read
DisplayFile_StopsAtError ==
    /\ pc["file_collector"] = "display"
    /\ shown < Len(files)
    /\ LET file == files[shown + 1] IN
       IF ReadsToString(file.kind)
       THEN /\ Println("file_collector", FileLines(file.index))
            /\ shown' = shown + 1
            /\ UNCHANGED stderr
       ELSE /\ Eprintln("file_collector", <<FileErrorLine(file.index)>>)
            /\ shown' = Len(files)
            /\ UNCHANGED stdout
    /\ UNCHANGED <<suite, pc, exitCode, otherThanCollector, dir, files,
                   cursor, getFiles>>

\* one iteration of the for loop of display_files
DisplayFile ==
    /\ pc["file_collector"] = "display"
    /\ shown < Len(files)
    /\ shown' = shown + 1
    /\ LET file == files[shown + 1] IN
       IF ReadsToString(file.kind)
       THEN /\ Println("file_collector", FileLines(file.index))
            /\ UNCHANGED stderr
       ELSE /\ Eprintln("file_collector", <<FileErrorLine(file.index)>>)
            /\ UNCHANGED stdout
    /\ UNCHANGED <<suite, pc, exitCode, otherThanCollector, dir, files,
                   cursor, getFiles>>

\* display_files returns, then main returns
DisplayDone ==
    /\ pc["file_collector"] = "display"
    /\ shown = Len(files)
    /\ MainReturns("file_collector")
    /\ UNCHANGED <<suite, stdout, stderr, otherThanCollector, collectorVars>>

CollectorNext ==
    \/ ReadDir
    \/ NextEntry
    \/ EndOfDir
    \/ ReportError
    \/ DisplayFile
    \/ DisplayDone

-----------------------------------------------------------------------------
(* chapter-5/tracing/examples/span.rs                                      *)

LevelRank(level) ==
    CASE level = "ERROR" -> 1
      [] level = "WARN" -> 2
      [] level = "INFO" -> 3
      [] level = "DEBUG" -> 4
      [] level = "TRACE" -> 5

\* FmtSubscriber::builder().with_max_level(Level::TRACE)
MaxLevel == "TRACE"

\* a span or event of this level passes the subscriber's filter
LevelEnabled(level) == LevelRank(level) <= LevelRank(MaxLevel)

\* an enter that leaves the stack alone when a span is already entered
SpanEnter_Flat(name, level) ==
    IF LevelEnabled(level)
    THEN /\ spanStack' = IF spanStack = <<>> THEN <<name>> ELSE spanStack
         /\ spanLog' = Append(spanLog, [kind |-> "enter", name |-> name])
    ELSE UNCHANGED <<spanStack, spanLog>>

\* span!(level, name) followed by .enter(): the span becomes the innermost
\* entered span (nothing happens when the filter disables the span)
SpanEnter(name, level) ==
    IF LevelEnabled(level)
    THEN /\ spanStack' = Append(spanStack, name)
         /\ spanLog' = Append(spanLog, [kind |-> "enter", name |-> name])
    ELSE UNCHANGED <<spanStack, spanLog>>

\* the stack without its last occurrence of name
RECURSIVE WithoutLast(_, _)
WithoutLast(stack, name) ==
    IF stack = <<>> THEN <<>>
    ELSE IF stack[Len(stack)] = name THEN SubSeq(stack, 1, Len(stack) - 1)
    ELSE Append(WithoutLast(SubSeq(stack, 1, Len(stack) - 1), name),
                stack[Len(stack)])

\* an Entered guard that forgets to exit its span when dropped
SpanExit_Leaks(name, level) == UNCHANGED <<spanStack, spanLog>>

\* the Entered guard of the span is dropped: the span is exited
SpanExit(name, level) ==
    IF LevelEnabled(level)
    THEN /\ spanStack' = WithoutLast(spanStack, name)
         /\ spanLog' = Append(spanLog, [kind |-> "exit", name |-> name])
    ELSE UNCHANGED <<spanStack, spanLog>>

\* info!(message): the record carries the spans entered at this moment
EmitInfo(message) ==
    /\ spanLog' = IF LevelEnabled("INFO")
                  THEN Append(spanLog, [kind |-> "event", name |-> message,
                                        context |-> spanStack])
                  ELSE spanLog
    /\ UNCHANGED spanStack

SpanStep(from, to) ==
    /\ pc["span"] = from
    /\ Goto("span", to)
    /\ UNCHANGED <<suite, stdout, stderr, exitCode, otherThanSpan>>

\* main: the subscriber is installed, span "main" is created and entered
MainEnter == SpanStep("start", "main_info") /\ SpanEnter("main", "INFO")

\* main: info!("Starting application")
MainInfo ==
    SpanStep("main_info", "call_compute") /\ EmitInfo("Starting application")

\* main calls compute, which creates and enters span "compute"
ComputeEnter ==
    SpanStep("call_compute", "compute_info") /\ SpanEnter("compute", "DEBUG")

\* compute: info!("Performing computation")
ComputeInfo ==
    SpanStep("compute_info", "call_nested")
    /\ EmitInfo("Performing computation")

\* compute calls nested_compute, which creates and enters "nested_compute"
NestedEnter ==
    SpanStep("call_nested", "nested_info")
    /\ SpanEnter("nested_compute", "DEBUG")

\* nested_compute: info!("Performing nested computation")
NestedInfo ==
    SpanStep("nested_info", "nested_drop")
    /\ EmitInfo("Performing nested computation")

\* nested_compute: drop(enter), then the function returns
NestedDrop ==
    SpanStep("nested_drop", "compute_return")
    /\ SpanExit("nested_compute", "DEBUG")

\* compute returns: its _enter guard is dropped
ComputeReturn ==
    SpanStep("compute_return", "main_return") /\ SpanExit("compute", "DEBUG")

\* main returns: its _enter guard is dropped, the process exits
MainReturn ==
    /\ pc["span"] = "main_return"
    /\ SpanExit("main", "INFO")
    /\ MainReturns("span")
    /\ UNCHANGED <<suite, stdout, stderr, otherThanSpan>>

SpanNext ==
    \/ MainEnter
    \/ MainInfo
    \/ ComputeEnter
    \/ ComputeInfo
    \/ NestedEnter
    \/ NestedInfo
    \/ NestedDrop
    \/ ComputeReturn
    \/ MainReturn

-----------------------------------------------------------------------------
(* chapter-3: text, integer parsing and the data file                      *)

MaxI32 == 2147483647
MinI32 == -2147483647 - 1

Ok(v) == [ok |-> TRUE, value |-> v]
Err(e) == [ok |-> FALSE, error |-> e]
NoResult == [ok |-> FALSE, error |-> "not returned"]

\* the String made of the characters cs
RECURSIVE Str(_)
Str(cs) == IF cs = <<>> THEN "" ELSE cs[1] \o Str(Tail(cs))

\* Display of an i32
I32ToString(n) ==
    IF n = MinI32 THEN "-2147483648" ELSE IntToString(n)

Whitespace == {" ", "\n", "\t", "\r"}

RECURSIVE TrimStart(_)
TrimStart(cs) ==
    IF cs # <<>> /\ cs[1] \in Whitespace THEN TrimStart(Tail(cs)) ELSE cs

RECURSIVE TrimEnd(_)
TrimEnd(cs) ==
    IF cs # <<>> /\ cs[Len(cs)] \in Whitespace
    THEN TrimEnd(SubSeq(cs, 1, Len(cs) - 1))
    ELSE cs

\* a trim that forgets the leading whitespace
Trim_EndOnly(cs) == TrimEnd(cs)

\* str::trim
Trim(cs) == TrimEnd(TrimStart(cs))

IsDigit(c) == \E d \in 1..10 : Digit[d] = c
DigitValue(c) == (CHOOSE d \in 1..10 : Digit[d] = c) - 1

\* the digit loop of i32::from_str: each character must be a digit, then the
\* accumulator is multiplied and the digit added (subtracted for a negative
\* number), both checked against the range of i32
RECURSIVE ParseDigits(_, _, _)
ParseDigits(cs, acc, positive) ==
    IF cs = <<>> THEN Ok(acc)
    ELSE IF ~IsDigit(cs[1]) THEN Err("InvalidDigit")
    ELSE LET x == DigitValue(cs[1]) IN
         IF positive
         THEN IF acc > MaxI32 \div 10 THEN Err("PosOverflow")
              ELSE IF acc * 10 > MaxI32 - x THEN Err("PosOverflow")
              ELSE ParseDigits(Tail(cs), acc * 10 + x, TRUE)
         ELSE IF acc < -(MaxI32 \div 10) THEN Err("NegOverflow")
              ELSE IF acc * 10 < MinI32 + x THEN Err("NegOverflow")
              ELSE ParseDigits(Tail(cs), acc * 10 - x, FALSE)

\* str::parse::<i32>
ParseI32(cs) ==
    IF cs = <<>> THEN Err("Empty")
    ELSE IF cs = <<"+">> \/ cs = <<"-">> THEN Err("InvalidDigit")
    ELSE IF cs[1] = "-" THEN ParseDigits(Tail(cs), 0, FALSE)
    ELSE IF cs[1] = "+" THEN ParseDigits(Tail(cs), 0, TRUE)
    ELSE ParseDigits(cs, 0, TRUE)

\* Display of io::Error and of ParseIntError
IoErrorText(kind) ==
    CASE kind = "NotFound" -> "No such file or directory (os error 2)"
      [] kind = "InvalidData" -> "stream did not contain valid UTF-8"

ParseErrorText(kind) ==
    CASE kind = "Empty" -> "cannot parse integer from empty string"
      [] kind = "InvalidDigit" -> "invalid digit found in string"
      [] kind = "PosOverflow" -> "number too large to fit in target type"
      [] kind = "NegOverflow" -> "number too small to fit in target type"

MaxContentLen == 2

Alphabet == {"4", "2", "-", "+", " ", "\n", "x"}

\* contents at the edges of the i32 range, and the documented "42\n"
EdgeTexts ==
    { <<"4", "2", "\n">>,
      <<" ", "-", "4", "\n">>,
      <<"2", "1", "4", "7", "4", "8", "3", "6", "4", "7">>,
      <<"2", "1", "4", "7", "4", "8", "3", "6", "4", "8">>,
      <<"-", "2", "1", "4", "7", "4", "8", "3", "6", "4", "8">>,
      <<"-", "2", "1", "4", "7", "4", "8", "3", "6", "4", "9">> }

Texts == UNION {[1..n -> Alphabet] : n \in 0..MaxContentLen} \cup EdgeTexts

\* data.txt is missing, cannot be read once opened, or holds a text
MissingFile == [state |-> "missing", contents |-> <<>>]

DataFiles ==
    {MissingFile, [state |-> "unreadable", contents |-> <<>>]} \cup
    {[state |-> "text", contents |-> cs] : cs \in Texts}

\* the function of program p attempts a fallible step
Attempt(p, step) == steps' = [steps EXCEPT ![p] = Append(@, step)]

\* File::open succeeded: program p holds one more open File
OpenHandle(p) == handles' = [handles EXCEPT ![p] = @ + 1]

\* the File of program p stays open when it goes out of scope
DropFile_Leaks(p) == UNCHANGED handles

\* the File of program p goes out of scope and is closed
DropFile(p) == handles' = [handles EXCEPT ![p] = @ - 1]

\* the function of program p returns r to main
Returns(p, r) ==
    /\ result' = [result EXCEPT ![p] = r]
    /\ Goto(p, "print")

FileStep(p, at) ==
    /\ pc[p] = at
    /\ UNCHANGED <<suite, stdout, stderr, exitCode, otherThanFile, dataFile>>

-----------------------------------------------------------------------------
(* chapter-3/simple/examples/custom_error.rs                               *)

\* impl From<io::Error> for MyError, impl From<ParseIntError> for MyError
MyErrorFromIo(e) == [variant |-> "Io", source |-> e]
MyErrorFromParse(e) == [variant |-> "Parse", source |-> e]

\* "{:?}" of MyError
DebugMyError(e) == e.variant \o "(" \o e.source \o ")"

\* File::open(path)?
CustomOpen ==
    /\ FileStep("custom_error", "start")
    /\ Attempt("custom_error", "open")
    /\ IF dataFile.state = "missing"
       THEN /\ Returns("custom_error", Err(MyErrorFromIo("NotFound")))
            /\ UNCHANGED handles
       ELSE /\ OpenHandle("custom_error")
            /\ Goto("custom_error", "read")
            /\ UNCHANGED result
    /\ UNCHANGED buffer

\* .read_to_string(&mut contents)?; the temporary File is dropped when the
\* statement ends, by the early return as well
CustomRead ==
    /\ FileStep("custom_error", "read")
    /\ Attempt("custom_error", "read")
    /\ DropFile("custom_error")
    /\ IF dataFile.state = "unreadable"
       THEN /\ Returns("custom_error", Err(MyErrorFromIo("InvalidData")))
            /\ UNCHANGED buffer
       ELSE /\ buffer' = [buffer EXCEPT !["custom_error"] = dataFile.contents]
            /\ Goto("custom_error", "parse")
            /\ UNCHANGED result

\* let number = contents.trim().parse()?; Ok(number)
CustomParse ==
    /\ FileStep("custom_error", "parse")
    /\ Attempt("custom_error", "parse")
    /\ LET parsed == ParseI32(Trim(buffer["custom_error"])) IN
       Returns("custom_error",
               IF parsed.ok THEN Ok(parsed.value)
               ELSE Err(MyErrorFromParse(parsed.error)))
    /\ UNCHANGED <<handles, buffer>>

\* main: match on the result, print, return
CustomPrint ==
    /\ pc["custom_error"] = "print"
    /\ IF result["custom_error"].ok
       THEN /\ Println("custom_error",
                       <<"Number: " \o I32ToString(result["custom_error"].value)>>)
            /\ UNCHANGED stderr
       ELSE /\ Eprintln("custom_error",
                        <<"Error: " \o DebugMyError(result["custom_error"].error)>>)
            /\ UNCHANGED stdout
    /\ MainReturns("custom_error")
    /\ UNCHANGED <<suite, otherThanFile, fileVars>>

CustomErrorNext == CustomOpen \/ CustomRead \/ CustomParse \/ CustomPrint

-----------------------------------------------------------------------------
(* chapter-3/anyhow/examples/without_box_dyn.rs                           *)

\* anyhow::Error made by `?` from a std error: a chain of one message
AnyhowFrom(text) == [chain |-> <<text>>]

\* "{}" of anyhow::Error: the outermost message
DisplayAnyhow(e) == e.chain[1]

\* let mut file = File::open(path)...?
AnyhowOpen ==
    /\ FileStep("without_box_dyn", "start")
    /\ Attempt("without_box_dyn", "open")
    /\ IF dataFile.state = "missing"
       THEN /\ Returns("without_box_dyn", Err(AnyhowFrom(IoErrorText("NotFound"))))
            /\ UNCHANGED handles
       ELSE /\ OpenHandle("without_box_dyn")
            /\ Goto("without_box_dyn", "read")
            /\ UNCHANGED result
    /\ UNCHANGED buffer

\* file.read_to_string(&mut contents)...?; the early return drops file
AnyhowRead ==
    /\ FileStep("without_box_dyn", "read")
    /\ Attempt("without_box_dyn", "read")
    /\ IF dataFile.state = "unreadable"
       THEN /\ Returns("without_box_dyn", Err(AnyhowFrom(IoErrorText("InvalidData"))))
            /\ DropFile("without_box_dyn")
            /\ UNCHANGED buffer
       ELSE /\ buffer' = [buffer EXCEPT !["without_box_dyn"] = dataFile.contents]
            /\ Goto("without_box_dyn", "parse")
            /\ UNCHANGED <<result, handles>>

\* let number = contents.trim().parse::<i32>()?; Ok(number); file is dropped
\* when the function returns
AnyhowParse ==
    /\ FileStep("without_box_dyn", "parse")
    /\ Attempt("without_box_dyn", "parse")
    /\ LET parsed == ParseI32(Trim(buffer["without_box_dyn"])) IN
       Returns("without_box_dyn",
               IF parsed.ok THEN Ok(parsed.value)
               ELSE Err(AnyhowFrom(ParseErrorText(parsed.error))))
    /\ DropFile("without_box_dyn")
    /\ UNCHANGED buffer

\* main: match on the result, print, return
AnyhowPrint ==
    /\ pc["without_box_dyn"] = "print"
    /\ IF result["without_box_dyn"].ok
       THEN /\ Println("without_box_dyn",
                 <<"Number: " \o I32ToString(result["without_box_dyn"].value)>>)
            /\ UNCHANGED stderr
       ELSE /\ Eprintln("without_box_dyn",
                 <<"Error: " \o DisplayAnyhow(result["without_box_dyn"].error)>>)
            /\ UNCHANGED stdout
    /\ MainReturns("without_box_dyn")
    /\ UNCHANGED <<suite, otherThanFile, fileVars>>

WithoutBoxDynNext == AnyhowOpen \/ AnyhowRead \/ AnyhowParse \/ AnyhowPrint

-----------------------------------------------------------------------------
(* chapter-3/anyhow/examples/context.rs                                   *)

\* .context(msg) / .with_context(|| msg): msg is put in front of the cause
WithContext(msg, text) == [chain |-> <<msg, text>>]

\* let mut file = File::open(path)...?
ContextOpen ==
    /\ FileStep("context", "start")
    /\ Attempt("context", "open")
    /\ IF dataFile.state = "missing"
       THEN /\ Returns("context", Err(WithContext("Failed to open file at 'data.txt'",
                                         IoErrorText("NotFound"))))
            /\ UNCHANGED handles
       ELSE /\ OpenHandle("context")
            /\ Goto("context", "read")
            /\ UNCHANGED result
    /\ UNCHANGED buffer

\* file.read_to_string(&mut contents)...?; the early return drops file
ContextRead ==
    /\ FileStep("context", "read")
    /\ Attempt("context", "read")
    /\ IF dataFile.state = "unreadable"
       THEN /\ Returns("context", Err(WithContext("Failed to read contents from file",
                                         IoErrorText("InvalidData"))))
            /\ DropFile("context")
            /\ UNCHANGED buffer
       ELSE /\ buffer' = [buffer EXCEPT !["context"] = dataFile.contents]
            /\ Goto("context", "parse")
            /\ UNCHANGED <<result, handles>>

\* a parse step that does not trim the contents
ContextParse_NoTrim ==
    /\ FileStep("context", "parse")
    /\ Attempt("context", "parse")
    /\ LET parsed == ParseI32(buffer["context"]) IN
       Returns("context",
               IF parsed.ok THEN Ok(parsed.value)
               ELSE Err(WithContext("Failed to parse number from file contents",
                                    ParseErrorText(parsed.error))))
    /\ DropFile("context")
    /\ UNCHANGED buffer

\* let number = contents.trim().parse::<i32>().context(...)?; Ok(number);
\* file is dropped when the function returns
ContextParse ==
    /\ FileStep("context", "parse")
    /\ Attempt("context", "parse")
    /\ LET parsed == ParseI32(Trim(buffer["context"])) IN
       Returns("context",
               IF parsed.ok THEN Ok(parsed.value)
               ELSE Err(WithContext("Failed to parse number from file contents",
                                    ParseErrorText(parsed.error))))
    /\ DropFile("context")
    /\ UNCHANGED buffer

\* main: match on the result, print, return
ContextPrint ==
    /\ pc["context"] = "print"
    /\ IF result["context"].ok
       THEN /\ Println("context",
                       <<"Number: " \o I32ToString(result["context"].value)>>)
            /\ UNCHANGED stderr
       ELSE /\ Eprintln("context",
                        <<"Error: " \o DisplayAnyhow(result["context"].error)>>)
            /\ UNCHANGED stdout
    /\ MainReturns("context")
    /\ UNCHANGED <<suite, otherThanFile, fileVars>>

ContextNext == ContextOpen \/ ContextRead \/ ContextParse \/ ContextPrint

-----------------------------------------------------------------------------
(* chapter-3/simple/examples/result_question.rs                           *)

\* let mut file = File::open(path)?
QuestionOpen ==
    /\ FileStep("result_question", "start")
    /\ Attempt("result_question", "open")
    /\ IF dataFile.state = "missing"
       THEN /\ Returns("result_question", Err("NotFound"))
            /\ UNCHANGED handles
       ELSE /\ OpenHandle("result_question")
            /\ Goto("result_question", "read")
            /\ UNCHANGED result
    /\ UNCHANGED buffer

\* file.read_to_string(&mut contents)?; Ok(contents); file is dropped
\* when the function returns
QuestionRead ==
    /\ FileStep("result_question", "read")
    /\ Attempt("result_question", "read")
    /\ DropFile("result_question")
    /\ IF dataFile.state = "unreadable"
       THEN /\ Returns("result_question", Err("InvalidData"))
            /\ UNCHANGED buffer
       ELSE /\ buffer' = [buffer EXCEPT !["result_question"] = dataFile.contents]
            /\ Returns("result_question", Ok(dataFile.contents))

\* main: match on the result, print, return
QuestionPrint ==
    /\ pc["result_question"] = "print"
    /\ IF result["result_question"].ok
       THEN /\ Println("result_question",
                 <<"File contents: " \o Str(result["result_question"].value)>>)
            /\ UNCHANGED stderr
       ELSE /\ Eprintln("result_question",
                 <<"Error reading file: " \o IoErrorText(result["result_question"].error)>>)
            /\ UNCHANGED stdout
    /\ MainReturns("result_question")
    /\ UNCHANGED <<suite, otherThanFile, fileVars>>

ResultQuestionNext == QuestionOpen \/ QuestionRead \/ QuestionPrint

-----------------------------------------------------------------------------
(* chapter-3/simple/examples/result_without_question.rs                   *)

\* match File::open(path) { Ok(f) => f, Err(e) => return Err(e) }
MatchOpen ==
    /\ FileStep("result_without_question", "start")
    /\ Attempt("result_without_question", "open")
    /\ IF dataFile.state = "missing"
       THEN /\ Returns("result_without_question", Err("NotFound"))
            /\ UNCHANGED handles
       ELSE /\ OpenHandle("result_without_question")
            /\ Goto("result_without_question", "read")
            /\ UNCHANGED result
    /\ UNCHANGED buffer

\* match file.read_to_string(&mut contents): Ok(contents) or Err(e); file is dropped
\* when the function returns
MatchRead ==
    /\ FileStep("result_without_question", "read")
    /\ Attempt("result_without_question", "read")
    /\ DropFile("result_without_question")
    /\ IF dataFile.state = "unreadable"
       THEN /\ Returns("result_without_question", Err("InvalidData"))
            /\ UNCHANGED buffer
       ELSE /\ buffer' = [buffer EXCEPT !["result_without_question"] = dataFile.contents]
            /\ Returns("result_without_question", Ok(dataFile.contents))

\* main: match on the result, print, return
MatchPrint ==
    /\ pc["result_without_question"] = "print"
    /\ IF result["result_without_question"].ok
       THEN /\ Println("result_without_question",
                 <<"File contents: " \o Str(result["result_without_question"].value)>>)
            /\ UNCHANGED stderr
       ELSE /\ Eprintln("result_without_question",
                 <<"Error reading file: " \o IoErrorText(result["result_without_question"].error)>>)
            /\ UNCHANGED stdout
    /\ MainReturns("result_without_question")
    /\ UNCHANGED <<suite, otherThanFile, fileVars>>

ResultWithoutQuestionNext == MatchOpen \/ MatchRead \/ MatchPrint

-----------------------------------------------------------------------------
(* chapter-4/validation                                                    *)

MaxNameLen == 3

\* characters a name is made of, with the bytes each takes in UTF-8
NameAlphabet == {"a", "B", "é", "日"}

Utf8Len(c) ==
    CASE c = "é" -> 2
      [] c = "日" -> 3
      [] OTHER -> 1

\* char::to_uppercase
Upper(c) ==
    CASE c = "a" -> "A"
      [] c = "é" -> "É"
      [] c = "l" -> "L"
      [] c = "o" -> "O"
      [] c = "e" -> "E"
      [] OTHER -> c

Names == UNION {[1..n -> NameAlphabet] : n \in 0..MaxNameLen}

\* str::len: the length in bytes
RECURSIVE ByteLen(_)
ByteLen(cs) == IF cs = <<>> THEN 0 ELSE Utf8Len(cs[1]) + ByteLen(Tail(cs))

\* str::to_uppercase
RECURSIVE ToUppercase(_)
ToUppercase(cs) ==
    IF cs = <<>> THEN <<>> ELSE <<Upper(cs[1])>> \o ToUppercase(Tail(cs))

\* fn validate_name(name: &str) -> Result<String, String>
validate_name(name) ==
    IF ByteLen(name) >= 3
    THEN Ok(name)
    ELSE Err("Name must be at least 3 characters long")

NoArgs == [name |-> <<>>, uppercase |-> FALSE, config |-> <<>>]
NoCli == [name |-> <<>>, uppercase |-> FALSE]

ValidationArgs ==
    {[name |-> n, uppercase |-> u, config |-> <<>>] :
        n \in Names, u \in BOOLEAN}

CliStep(p, at) ==
    /\ pc[p] = at
    /\ UNCHANGED <<suite, otherThanCli, argv, envVar, existing>>

\* Cli::parse(): clap runs the value parser on <name>; when it fails clap
\* prints the error to stderr and exits with status 2
ValidationParse ==
    /\ CliStep("validation", "start")
    /\ LET parsed == validate_name(argv.name) IN
       IF parsed.ok
       THEN /\ cli' = [name |-> parsed.value, uppercase |-> argv.uppercase]
            /\ Goto("validation", "greet")
            /\ UNCHANGED <<stderr, exitCode>>
       ELSE /\ Eprintln("validation",
                 <<"error: invalid value '" \o Str(argv.name)
                     \o "' for '<NAME>': " \o parsed.error>>)
            /\ pc' = [pc EXCEPT !["validation"] = "done"]
            /\ exitCode' = [exitCode EXCEPT !["validation"] = 2]
            /\ UNCHANGED cli
    /\ UNCHANGED <<stdout, configPath>>

\* main: format the greeting, print it (in uppercase with -u), return
ValidationGreet ==
    /\ CliStep("validation", "greet")
    /\ LET greeting == <<"H", "e", "l", "l", "o", ",", " ">> \o cli.name \o <<"!">>
       IN Println("validation",
                  <<Str(IF cli.uppercase THEN ToUppercase(greeting)
                        ELSE greeting)>>)
    /\ MainReturns("validation")
    /\ UNCHANGED <<stderr, cli, configPath>>

ValidationNext == ValidationParse \/ ValidationGreet

-----------------------------------------------------------------------------
(* chapter-4/examples/var.rs and chapter-4/var_override                    *)

DefaultConfigPath == "/etc/myapp/config"

Paths == {"/etc/myapp/config", "/tmp/env.toml", "/tmp/cli.toml"}

\* CONFIG_PATH is not set, holds bytes that are not Unicode, or holds a path
EnvStates ==
    {[state |-> "unset", value |-> ""], [state |-> "not_unicode", value |-> ""]}
    \cup {[state |-> "set", value |-> v] : v \in Paths \ {"/tmp/cli.toml"}}

NoEnv == [state |-> "unset", value |-> ""]

ConfigArgs ==
    {NoArgs} \cup
    {[name |-> <<>>, uppercase |-> FALSE, config |-> <<v>>] :
        v \in Paths \ {"/tmp/env.toml"}}

\* env::var("CONFIG_PATH").unwrap_or_else(|_| String::from("/etc/myapp/config"))
EnvOrDefault ==
    IF envVar.state = "set" THEN envVar.value ELSE DefaultConfigPath

\* if Path::new(&config_path).exists() { println! } else { eprintln! }; then
\* main returns
ReportConfig(p) ==
    /\ CliStep(p, "report")
    /\ IF configPath[p] \in existing
       THEN /\ Println(p, <<"Using configuration file at: " \o configPath[p]>>)
            /\ UNCHANGED stderr
       ELSE /\ Eprintln(p, <<"Configuration file not found at: "
                              \o configPath[p]>>)
            /\ UNCHANGED stdout
    /\ MainReturns(p)
    /\ UNCHANGED <<cli, configPath>>

\* var.rs: let config_path = env::var(...).unwrap_or_else(...)
VarResolve ==
    /\ CliStep("var", "start")
    /\ configPath' = [configPath EXCEPT !["var"] = EnvOrDefault]
    /\ Goto("var", "report")
    /\ UNCHANGED <<stdout, stderr, exitCode, cli>>

VarReport == ReportConfig("var")

\* var_override: --config when given, else the environment, else the default
OverrideResolve ==
    /\ CliStep("var_override", "start")
    /\ configPath' = [configPath EXCEPT !["var_override"] =
                         IF argv.config # <<>> THEN argv.config[1]
                         ELSE EnvOrDefault]
    /\ Goto("var_override", "report")
    /\ UNCHANGED <<stdout, stderr, exitCode, cli>>

OverrideReport == ReportConfig("var_override")

ConfigNext == VarResolve \/ VarReport \/ OverrideResolve \/ OverrideReport

-----------------------------------------------------------------------------
(* chapter-4/greet-cli and the chapter-1 / chapter-2 function demos        *)
(*                                                                         *)
(* Each program is a suite of its own.  The functions of the demos are     *)
(* applied to an input drawn in Init, not only to the literal main passes. *)

NoInput == <<>>
NoOutput == <<>>

\* a step of demo program p from position at
DemoStep(p, at) ==
    /\ pc[p] = at
    /\ UNCHANGED <<suite, otherThanDemo, input>>

\* the function of demo program p returned v, and main returned
DemoReturns(p, v) ==
    /\ output' = [output EXCEPT ![p] = v]
    /\ MainReturns(p)
    /\ UNCHANGED <<args, iter>>

\* --- greet-cli: --name <NAME> is required, --count <COUNT> is a u8 that
\* defaults to 1

MaxCountLen == 3

\* the command line: each option is absent (<<>>) or given once; the count
\* is a text of at most MaxCountLen characters
GreetInputs ==
    LET names == {"Alice", "Zoé"}
        texts == UNION {[1..n -> {"0", "2", "3", "5", "6", "x"}] :
                           n \in 1..MaxCountLen}
    IN {[name |-> n, count |-> c] :
           n \in {<<>>} \cup {<<s>> : s \in names},
           c \in {<<>>} \cup {<<t>> : t \in texts}}

NoGreetArgs == [name |-> "", count |-> 0]

\* clap's value parser of a u8 field: the text is parsed as an integer and
\* the value must be in 0..=255.  (clap parses to i64; on texts this short
\* the i64 and the i32 parser agree.)
ParseCount(text) ==
    LET parsed == ParseI32(text) IN
    IF ~parsed.ok THEN Err(ParseErrorText(parsed.error))
    ELSE IF parsed.value < 0 \/ parsed.value > 255
         THEN Err(I32ToString(parsed.value) \o " is not in 0..=255")
         ELSE parsed

\* clap prints the error to stderr and exits with status 2
GreetUsageError(line) ==
    /\ Eprintln("greet_cli", <<line>>)
    /\ pc' = [pc EXCEPT !["greet_cli"] = "done"]
    /\ exitCode' = [exitCode EXCEPT !["greet_cli"] = 2]
    /\ UNCHANGED <<args, iter>>

\* Args::parse()
GreetParse ==
    /\ DemoStep("greet_cli", "start")
    /\ LET count == IF input.count = <<>> THEN Ok(1)
                    ELSE ParseCount(input.count[1])
       IN
       IF input.name = <<>>
       THEN GreetUsageError("error: the following required arguments were "
                            \o "not provided: --name <NAME>")
       ELSE IF ~count.ok
       THEN GreetUsageError("error: invalid value '" \o Str(input.count[1])
                            \o "' for '--count <COUNT>': " \o count.error)
       ELSE /\ args' = [name |-> input.name[1], count |-> count.value]
            /\ iter' = 0
            /\ Goto("greet_cli", "loop")
            /\ UNCHANGED <<stderr, exitCode>>
    /\ UNCHANGED <<stdout, output>>

\* a range a..b that yields one value too many
RangeHasNext_Inclusive(start, end) == start <= end

\* Range::next of start..end yields start while start < end
RangeHasNext(start, end) == start < end

\* for _ in 0..args.count { println!("Hello, {}!", args.name); }
GreetLoop ==
    /\ DemoStep("greet_cli", "loop")
    /\ RangeHasNext(iter, args.count)
    /\ iter' = iter + 1
    /\ Println("greet_cli", <<"Hello, " \o args.name \o "!">>)
    /\ UNCHANGED <<pc, stderr, exitCode, args, output>>

\* the range is exhausted and main returns
GreetReturn ==
    /\ DemoStep("greet_cli", "loop")
    /\ ~RangeHasNext(iter, args.count)
    /\ MainReturns("greet_cli")
    /\ UNCHANGED <<stdout, stderr, args, iter, output>>

GreetNext == GreetParse \/ GreetLoop \/ GreetReturn

\* --- chapter-2 partition_odd.rs and partition_strings.rs

MaxListLen == 3

\* the lists of at most MaxListLen elements of S
Lists(S) == UNION {[1..n -> S] : n \in 0..MaxListLen}

\* the % of Rust on i32 with a positive divisor: the remainder has the sign
\* of the dividend
Rem(n, m) ==
    IF n >= 0 THEN n % m
    ELSE -((((-(n + 1)) % m) + 1) % m)

\* the elements of the list xs
Elements(xs) == {xs[i] : i \in DOMAIN xs}

\* Iterator::partition: each element, in order, is pushed to the left
\* collection when the predicate holds and to the right one when not; the
\* closure is given as the function P from elements to booleans
Partition(xs, P) ==
    LET fold[i \in 0..Len(xs)] ==
            IF i = 0 THEN <<<<>>, <<>>>>
            ELSE LET left == fold[i - 1][1]
                     right == fold[i - 1][2]
                 IN IF P[xs[i]] THEN <<Append(left, xs[i]), right>>
                    ELSE <<left, Append(right, xs[i])>>
    IN fold[Len(xs)]

partition_even_odd(numbers) ==
    Partition(numbers, [n \in Elements(numbers) |-> Rem(n, 2) = 0])

partition_by_length(strings) ==
    Partition(strings, [s \in Elements(strings) |-> ByteLen(s) < 5])

PartitionNumbers == {MinI32, -3, 0, 2, MaxI32}

\* words of 0, 3, 4 and 5 ASCII characters, and one of 2 characters that
\* takes 6 bytes
PartitionWords ==
    {<<>>, <<"c", "a", "t">>, <<"b", "i", "r", "d">>,
     <<"a", "p", "p", "l", "e">>, <<"日", "日">>}

PartitionOddCall ==
    /\ DemoStep("partition_odd", "start")
    /\ DemoReturns("partition_odd", partition_even_odd(input))
    /\ UNCHANGED <<stdout, stderr>>

PartitionStringsCall ==
    /\ DemoStep("partition_strings", "start")
    /\ DemoReturns("partition_strings", partition_by_length(input))
    /\ UNCHANGED <<stdout, stderr>>

\* --- chapter-2 sort_by.rs and sort_closure.rs

\* an insertion that puts x before the elements with an equal key
InsertSorted_BeforeEqual(sorted, x, key) ==
    LET before == Cardinality({i \in DOMAIN sorted : key[sorted[i]] < key[x]})
    IN SubSeq(sorted, 1, before) \o <<x>>
       \o SubSeq(sorted, before + 1, Len(sorted))

\* one step of the insertion sort slice::sort_by runs on short slices: x goes
\* after every element whose key is not greater (the comparison |a, b|
\* a.key.cmp(&b.key) is given as the function key)
InsertSorted(sorted, x, key) ==
    LET before == Cardinality({i \in DOMAIN sorted : key[sorted[i]] <= key[x]})
    IN SubSeq(sorted, 1, before) \o <<x>>
       \o SubSeq(sorted, before + 1, Len(sorted))

\* slice::sort_by
SortBy(xs, key) ==
    LET sorted[i \in 0..Len(xs)] ==
            IF i = 0 THEN <<>> ELSE InsertSorted(sorted[i - 1], xs[i], key)
    IN sorted[Len(xs)]

\* the (name, quantity) tuples of sort_by.rs; two pairs of equal quantities
SortItems ==
    {<<"apple", 2>>, <<"banana", 1>>, <<"orange", 2>>, <<"kiwi", 1>>}

\* the Person values of sort_closure.rs; ages are u8
SortPeople ==
    {[name |-> "Alice", age |-> 30], [name |-> "Bob", age |-> 0],
     [name |-> "Charlie", age |-> 30], [name |-> "Dave", age |-> 255]}

\* text pieces joined with ", "
RECURSIVE JoinComma(_)
JoinComma(pieces) ==
    IF pieces = <<>> THEN ""
    ELSE IF Len(pieces) = 1 THEN pieces[1]
    ELSE pieces[1] \o ", " \o JoinComma(Tail(pieces))

\* {:?} of a Vec<(&str, i32)>
DebugItems(items) ==
    "[" \o JoinComma([i \in DOMAIN items |->
                         "(\"" \o items[i][1] \o "\", "
                             \o I32ToString(items[i][2]) \o ")"]) \o "]"

\* sort_by.rs: items.sort_by(|a, b| a.1.cmp(&b.1)); println!("{:?}", items)
SortByMain ==
    /\ DemoStep("sort_by", "start")
    /\ LET items == SortBy(input, [e \in Elements(input) |-> e[2]]) IN
       /\ Println("sort_by", <<DebugItems(items)>>)
       /\ DemoReturns("sort_by", items)
    /\ UNCHANGED stderr

\* sort_closure.rs: people.sort_by(|a, b| a.age.cmp(&b.age)), then one line
\* for each person
SortClosureMain ==
    /\ DemoStep("sort_closure", "start")
    /\ LET people == SortBy(input, [e \in Elements(input) |-> e.age]) IN
       /\ Println("sort_closure",
                  [i \in DOMAIN people |->
                      people[i].name \o " is " \o IntToString(people[i].age)
                          \o " years old"])
       /\ DemoReturns("sort_closure", people)
    /\ UNCHANGED stderr

\* --- chapter-2 fold_strings.rs

\* the words a sentence is folded from, the empty string among them
FoldWords ==
    {<<>>, <<"R", "u", "s", "t">>, <<"i", "s">>, <<"f", "u", "n">>}

\* the closure: |mut acc, &word| { if !acc.is_empty() { acc.push(' '); }
\* acc.push_str(word); acc }
PushWord(acc, word) ==
    (IF acc # <<>> THEN Append(acc, " ") ELSE acc) \o word

\* words.iter().fold(String::new(), ..)
FoldStrings(words) ==
    LET acc[i \in 0..Len(words)] ==
            IF i = 0 THEN <<>> ELSE PushWord(acc[i - 1], words[i])
    IN acc[Len(words)]

\* fold_strings.rs: fold the words, print the sentence
FoldStringsMain ==
    /\ DemoStep("fold_strings", "start")
    /\ LET sentence == FoldStrings(input) IN
       /\ Println("fold_strings", <<Str(sentence)>>)
       /\ DemoReturns("fold_strings", sentence)
    /\ UNCHANGED stderr

\* --- chapter-2 and_then.rs, or_else.rs, unwrap_or.rs and map_err.rs

Some(v) == [some |-> TRUE, value |-> v]
None == [some |-> FALSE]

\* Option::and_then; the closure is given as the function f on values
AndThen(opt, f) == IF opt.some THEN f[opt.value] ELSE None

\* Option::or_else; g is what the closure returns when it is called
OrElse(opt, g) == IF opt.some THEN opt ELSE g

\* Option::unwrap_or
UnwrapOr(opt, default) == IF opt.some THEN opt.value ELSE default

\* Result::map_err; the closure is given as the function f on errors
MapErr(res, f) == IF res.ok THEN res ELSE Err(f[res.error])

\* a lookup in which it is user 2 that does not exist
get_user_age_MissingTwo(user_id) ==
    IF user_id = 2 THEN None ELSE Some(30)

\* and_then.rs and or_else.rs: user 1 does not exist
get_user_age(user_id) ==
    IF user_id = 1 THEN None ELSE Some(30)

\* get_user_age(user_id).and_then(|age| Some(age * 2)); the age is 30, so
\* the u32 product cannot overflow
double_age(user_id) ==
    AndThen(get_user_age(user_id), [age \in {30} |-> Some(age * 2)])

get_default_age == Some(25)

\* user ids (u32) around the one that does not exist, up to the largest
\* 32-bit signed integer, the widest this model computes with
UserIds == {0, 1, 2, 3, MaxI32}

\* the digit loop of u32::from_str: each character must be a digit ("-" is
\* not one), then the accumulator is multiplied and the digit added, both
\* checked against u32::MAX = 4294967295 (written as quotient and remainder
\* by 10)
RECURSIVE ParseU32Digits(_, _)
ParseU32Digits(cs, acc) ==
    IF cs = <<>> THEN Ok(acc)
    ELSE IF ~IsDigit(cs[1]) THEN Err("InvalidDigit")
    ELSE LET x == DigitValue(cs[1]) IN
         IF acc > 429496729 \/ (acc = 429496729 /\ x > 5)
         THEN Err("PosOverflow")
         ELSE ParseU32Digits(Tail(cs), acc * 10 + x)

\* str::parse::<u32>
ParseU32(cs) ==
    IF cs = <<>> THEN Err("Empty")
    ELSE IF cs = <<"+">> \/ cs = <<"-">> THEN Err("InvalidDigit")
    ELSE IF cs[1] = "+" THEN ParseU32Digits(Tail(cs), 0)
    ELSE ParseU32Digits(cs, 0)

MaxDigits == 2

\* short texts, texts with a minus sign, and texts at the edge of the u32
\* range (the model computes with 32-bit signed integers, so of the
\* numbers up to u32::MAX the texts only denote those up to
\* 2147483647)
U32Texts ==
    UNION {[1..n -> {"0", "1", "2", "+", "x"}] : n \in 0..MaxDigits}
    \cup { <<"-", "1">>, <<"-", "0">>,
           <<"2", "1", "4", "7", "4", "8", "3", "6", "4", "7">>,
           <<"4", "2", "9", "4", "9", "6", "7", "2", "9", "6">>,
           <<"4", "2", "9", "4", "9", "6", "7", "3", "0", "0">> }

\* map_err.rs: s.parse::<u32>().map_err(|_| format!("Failed to parse '{}'", s))
parse_number(s) ==
    MapErr(ParseU32(s),
           [e \in {"Empty", "InvalidDigit", "PosOverflow"} |->
               "Failed to parse '" \o Str(s) \o "'"])

\* the values unwrap_or.rs unwraps: an optional age, the fallback age, and
\* a result
UnwrapInputs ==
    {[age |-> a, fallback |-> d, result |-> r] :
        a \in {None, Some(30)}, d \in {0, 20},
        r \in {Err("Failed"), Ok(100)}}

AndThenMain ==
    /\ DemoStep("and_then", "start")
    /\ DemoReturns("and_then", double_age(input))
    /\ UNCHANGED <<stdout, stderr>>

OrElseMain ==
    /\ DemoStep("or_else", "start")
    /\ DemoReturns("or_else", OrElse(get_user_age(input), get_default_age))
    /\ UNCHANGED <<stdout, stderr>>

\* unwrap_or.rs: println!("{}", age.unwrap_or(20)), then
\* println!("{}", result.unwrap_or_else(|_| 0))
UnwrapOrMain ==
    /\ DemoStep("unwrap_or", "start")
    /\ LET age == UnwrapOr(input.age, input.fallback)
           number == IF input.result.ok THEN input.result.value ELSE 0
       IN /\ Println("unwrap_or", <<IntToString(age), IntToString(number)>>)
          /\ DemoReturns("unwrap_or", age)
    /\ UNCHANGED stderr

MapErrMain ==
    /\ DemoStep("map_err", "start")
    /\ DemoReturns("map_err", parse_number(input))
    /\ UNCHANGED <<stdout, stderr>>

\* --- chapter-1 my_rand_project

\* width of the word the generator hands out per draw (the u32 of rand,
\* scaled down); the state SmallRng::from_entropy() leaves the generator in
\* is modelled by the word it yields next
RngBits == 8
RngWords == 0..(2^RngBits - 1)

\* a sampler that takes the range as inclusive of its end
GenRange_Inclusive(low, high, word) ==
    low + ((word * (high - low + 1)) \div 2^RngBits)

\* Rng::gen_range(low..high): the word is scaled into the half-open range by
\* a widening multiplication, of which the high part is added to low
GenRange(low, high, word) ==
    low + ((word * (high - low)) \div 2^RngBits)

\* main: let random_number: u8 = rng.gen_range(1..101); println!(..)
RandMain ==
    /\ DemoStep("my_rand_project", "start")
    /\ LET random_number == GenRange(1, 101, input) IN
       /\ Println("my_rand_project",
                  <<"Random number with SmallRng: "
                      \o IntToString(random_number)>>)
       /\ DemoReturns("my_rand_project", random_number)
    /\ UNCHANGED stderr

\* test_random_number_with_small_rng: the same draw, then the assertion; a
\* failed assert! panics and the test process exits with status 101
RandTest ==
    /\ DemoStep("rand_test", "start")
    /\ LET random_number == GenRange(1, 101, input) IN
       /\ output' = [output EXCEPT !["rand_test"] = random_number]
       /\ pc' = [pc EXCEPT !["rand_test"] = "done"]
       /\ exitCode' = [exitCode EXCEPT !["rand_test"] =
                          IF random_number >= 1 /\ random_number <= 100
                          THEN 0 ELSE 101]
    /\ UNCHANGED <<stdout, stderr, args, iter>>

\* --- chapter-1 my_workspace/core_lib

\* width of usize, scaled down; arithmetic on it is modulo 2^UsizeBits
UsizeBits == 4
UsizeValues == 0..(2^UsizeBits - 1)

\* the operands, and whether the build checks arithmetic overflow (it does
\* in a debug build and does not in a release build)
AddInputs ==
    {[left |-> l, right |-> r, overflow_checks |-> c] :
        l \in UsizeValues, r \in UsizeValues, c \in BOOLEAN}

\* an addition that saturates at usize::MAX
add_Saturating(left, right) ==
    IF left + right >= 2^UsizeBits THEN Ok(2^UsizeBits - 1)
    ELSE Ok(left + right)

\* pub fn add: left + right on usize; when the sum does not fit the
\* addition panics in a build with overflow checks and wraps in one without
add(left, right) ==
    IF left + right >= 2^UsizeBits
    THEN IF input.overflow_checks THEN Err("attempt to add with overflow")
         ELSE Ok((left + right) % 2^UsizeBits)
    ELSE Ok(left + right)

\* a caller of add, as the test it_works is; a panic is reported on stderr
\* and ends the process with status 101
AddCall ==
    /\ DemoStep("core_lib", "start")
    /\ LET sum == add(input.left, input.right) IN
       /\ output' = [output EXCEPT !["core_lib"] = sum]
       /\ pc' = [pc EXCEPT !["core_lib"] = "done"]
       /\ IF sum.ok
          THEN /\ exitCode' = [exitCode EXCEPT !["core_lib"] = 0]
               /\ UNCHANGED stderr
          ELSE /\ exitCode' = [exitCode EXCEPT !["core_lib"] = 101]
               /\ Eprintln("core_lib", <<"panicked: " \o sum.error>>)
    /\ UNCHANGED <<stdout, args, iter>>

\* --- chapter-1 my_user_library

\* User values: names with and without characters JSON escapes, the name of
\* the test, and ages over the range of u8
Users ==
    LET names == UNION {[1..n -> {"A", "é", "\"", "\\"}] :
                           n \in 0..MaxNameLen}
                 \cup {<<"A", "l", "i", "c", "e">>, <<"a", "\n">>}
    IN {[name |-> n, age |-> a] : n \in names, a \in {0, 7, 30, 255}}

\* serde_json's escape of one character of a string
JsonEscape(c) ==
    CASE c = "\"" -> "\\\""
      [] c = "\\" -> "\\\\"
      [] c = "\n" -> "\\n"
      [] OTHER -> c

\* a string value: quoted, each character escaped
RECURSIVE JsonChars(_)
JsonChars(cs) ==
    IF cs = <<>> THEN "" ELSE JsonEscape(cs[1]) \o JsonChars(Tail(cs))

JsonString(cs) == "\"" \o JsonChars(cs) \o "\""

\* a struct in serde_json's compact form: the fields in the order given,
\* "key":value, separated by commas, no whitespace
JsonObject(fields) ==
    LET members[i \in 0..Len(fields)] ==
            IF i = 0 THEN ""
            ELSE members[i - 1] \o (IF i > 1 THEN "," ELSE "")
                 \o "\"" \o fields[i][1] \o "\":" \o fields[i][2]
    IN "{" \o members[Len(fields)] \o "}"

\* a serialization that writes the age before the name
to_json_AgeFirst(user) ==
    JsonObject(<<<<"age", IntToString(user.age)>>,
                 <<"name", JsonString(user.name)>>>>)

\* User::to_json: serde_json::to_string of the derived Serialize, which
\* visits the fields in declaration order; a u8 is written in decimal
to_json(user) ==
    JsonObject(<<<<"name", JsonString(user.name)>>,
                 <<"age", IntToString(user.age)>>>>)

\* a caller of to_json, as test_user_struct is
ToJsonCall ==
    /\ DemoStep("my_user_library", "start")
    /\ DemoReturns("my_user_library", to_json(input))
    /\ UNCHANGED <<stdout, stderr>>

\* --- chapter-2 and_then_result.rs

DivideInputs ==
    {[numerator |-> n, denominator |-> d] : n \in U32Texts, d \in U32Texts}

\* fn divide: u32 division, refused for a zero denominator
divide(numerator, denominator) ==
    IF denominator = 0 THEN Err("Division by zero")
    ELSE Ok(numerator \div denominator)

\* a chain that parses the denominator before the numerator
parse_and_divide_DenominatorFirst(numerator, denominator) ==
    LET denom == MapErr(ParseU32(denominator),
                     [e \in {"Empty", "InvalidDigit", "PosOverflow"} |->
                         "Invalid denominator"])
        num == MapErr(ParseU32(numerator),
                   [e \in {"Empty", "InvalidDigit", "PosOverflow"} |->
                       "Invalid numerator"])
    IN IF ~denom.ok THEN [result |-> denom, calls |-> <<"denominator">>]
       ELSE IF ~num.ok
       THEN [result |-> num, calls |-> <<"denominator", "numerator">>]
       ELSE [result |-> divide(num.value, denom.value),
             calls |-> <<"denominator", "numerator", "divide">>]

\* fn parse_and_divide: Result::and_then calls its closure only on Ok and
\* hands an Err on unchanged, so the chain stops at the first error; calls
\* lists the steps that were evaluated
parse_and_divide(numerator, denominator) ==
    LET num == MapErr(ParseU32(numerator),
                   [e \in {"Empty", "InvalidDigit", "PosOverflow"} |->
                       "Invalid numerator"])
        denom == MapErr(ParseU32(denominator),
                     [e \in {"Empty", "InvalidDigit", "PosOverflow"} |->
                         "Invalid denominator"])
    IN IF ~num.ok THEN [result |-> num, calls |-> <<"numerator">>]
       ELSE IF ~denom.ok
       THEN [result |-> denom, calls |-> <<"numerator", "denominator">>]
       ELSE [result |-> divide(num.value, denom.value),
             calls |-> <<"numerator", "denominator", "divide">>]

\* {:?} of a Result<u32, String>
DebugResult(r) ==
    IF r.ok THEN "Ok(" \o NatToString(r.value) \o ")"
    ELSE "Err(\"" \o r.error \o "\")"

\* main: call parse_and_divide and print the result with {:?}
ParseAndDivideMain ==
    /\ DemoStep("and_then_result", "start")
    /\ LET returned == parse_and_divide(input.numerator, input.denominator)
       IN /\ Println("and_then_result", <<DebugResult(returned.result)>>)
          /\ DemoReturns("and_then_result", returned)
    /\ UNCHANGED stderr

InputsOf(s) ==
    CASE s = "greet_cli" -> GreetInputs
      [] s = "partition_odd" -> Lists(PartitionNumbers)
      [] s = "partition_strings" -> Lists(PartitionWords)
      [] s = "sort_by" -> Lists(SortItems)
      [] s = "sort_closure" -> Lists(SortPeople)
      [] s = "fold_strings" -> Lists(FoldWords)
      [] s = "and_then" -> UserIds
      [] s = "or_else" -> UserIds
      [] s = "unwrap_or" -> UnwrapInputs
      [] s = "map_err" -> U32Texts
      [] s = "my_rand_project" -> RngWords
      [] s = "rand_test" -> RngWords
      [] s = "core_lib" -> AddInputs
      [] s = "my_user_library" -> Users
      [] s = "and_then_result" -> DivideInputs
      [] OTHER -> {NoInput}

DemoNext ==
    \/ GreetNext
    \/ PartitionOddCall
    \/ PartitionStringsCall
    \/ SortByMain
    \/ SortClosureMain
    \/ FoldStringsMain
    \/ AndThenMain
    \/ OrElseMain
    \/ UnwrapOrMain
    \/ MapErrMain
    \/ RandMain
    \/ RandTest
    \/ AddCall
    \/ ToJsonCall
    \/ ParseAndDivideMain

-----------------------------------------------------------------------------
(* Properties: rotating file logger                                        *)

FileCount == Len(rotated) + Len(active)

LargestInfoRecord == LogLineBytes("INFO", InfoMessage(NumRecords - 1))
LargestRecord == LogLineBytes("WARN", WarnMessage)

-----------------------------------------------------------------------------
(* Properties: file collector                                              *)

\* C3: when ./sample_dir cannot be read (read_dir fails or an entry yields
\* an error), get_files returns an error, no file's path or contents are
\* printed, the error is reported, and the example ends as a failure.
C3_DirectoryFailureIsFatal ==
    (pc["file_collector"] = "done" /\ getFiles = "Err") =>
        /\ stdout["file_collector"] = <<>>
        /\ stderr["file_collector"] = <<"Error collecting files: io error">>
        /\ exitCode["file_collector"] # 0

\* the regular files of the first n directory entries, in directory order
RECURSIVE RegularFiles(_, _)
RegularFiles(es, n) ==
    IF n = 0 THEN <<>>
    ELSE IF es[n] \in {"file", "locked"}
         THEN Append(RegularFiles(es, n - 1), [index |-> n, kind |-> es[n]])
         ELSE RegularFiles(es, n - 1)

\* what stdout must hold once the first n files of fs have been visited
RECURSIVE ExpectedStdout(_, _)
ExpectedStdout(fs, n) ==
    IF n = 0 THEN <<>>
    ELSE ExpectedStdout(fs, n - 1) \o
         (IF fs[n].kind = "file"
          THEN << "File: \"./sample_dir/f" \o IntToString(fs[n].index) \o "\"",
                  "Content:\ncontents of f" \o IntToString(fs[n].index),
                  "----------------------" >>
          ELSE <<>>)

\* what stderr must hold once the first n files of fs have been visited
RECURSIVE ExpectedStderr(_, _)
ExpectedStderr(fs, n) ==
    IF n = 0 THEN <<>>
    ELSE ExpectedStderr(fs, n - 1) \o
         (IF fs[n].kind = "locked"
          THEN << "Error reading file \"./sample_dir/f"
                    \o IntToString(fs[n].index) \o "\": io error" >>
          ELSE <<>>)

\* C4: display_files visits the collected regular files in list order; a
\* file that can be read gets its path, contents and separator printed
\* exactly once; a file whose read fails gets one error line and none of the
\* three output lines, and the remaining files are still visited.
C4_DisplayFiles ==
    (pc["file_collector"] \in {"display", "done"} /\ getFiles = "Ok") =>
        /\ files = RegularFiles(dir.entries, Len(dir.entries))
        /\ stdout["file_collector"] = ExpectedStdout(files, shown)
        /\ stderr["file_collector"] = ExpectedStderr(files, shown)
        /\ (pc["file_collector"] = "done" => shown = Len(files))

\* a readable file was displayed after an unreadable one was skipped
C4_Witness ==
    /\ pc["file_collector"] = "done"
    /\ getFiles = "Ok"
    /\ \E i, j \in 1..Len(files) :
          /\ i < j
          /\ files[i].kind = "locked"
          /\ files[j].kind = "file"
    /\ Len(stdout["file_collector"]) >= 3
    /\ Len(stderr["file_collector"]) >= 1

-----------------------------------------------------------------------------
(* Properties: tracing spans                                               *)

\* the spans entered and not yet exited after the first n entries of log,
\* outermost first
RECURSIVE OpenSpans(_, _)
OpenSpans(log, n) ==
    IF n = 0 THEN <<>>
    ELSE LET before == OpenSpans(log, n - 1) IN
         CASE log[n].kind = "enter" -> Append(before, log[n].name)
           [] log[n].kind = "exit" ->
                SelectSeq(before, LAMBDA sp : sp # log[n].name)
           [] OTHER -> before

EventsOf(log) == SelectSeq(log, LAMBDA e : e.kind = "event")
ExitsOf(log) == SelectSeq(log, LAMBDA e : e.kind = "exit")

ExpectedContext(message) ==
    CASE message = "Starting application" -> <<"main">>
      [] message = "Performing computation" -> <<"main", "compute">>
      [] message = "Performing nested computation" ->
            <<"main", "compute", "nested_compute">>

\* C5: every record carries the stack of spans entered and not yet exited
\* when it is emitted, outermost first: "Starting application" carries main,
\* "Performing computation" main then compute, "Performing nested
\* computation" main, compute, nested_compute.
C5_SpanNesting ==
    /\ \A i \in 1..Len(spanLog) :
          spanLog[i].kind = "event" =>
             /\ spanLog[i].context = OpenSpans(spanLog, i - 1)
             /\ spanLog[i].context = ExpectedContext(spanLog[i].name)
    /\ pc["span"] = "done" => Len(EventsOf(spanLog)) = 3

\* the record of the nested span has been emitted with both enclosing spans
C5_Witness ==
    /\ pc["span"] = "done"
    /\ \E i \in 1..Len(spanLog) :
          /\ spanLog[i].kind = "event"
          /\ spanLog[i].name = "Performing nested computation"
          /\ spanLog[i].context = <<"main", "compute", "nested_compute">>

-----------------------------------------------------------------------------
(* Properties: chapter-3 file reading                                      *)

Returned(p) == pc[p] \in {"print", "done"}

\* C6: every scoped resource is released when the acquiring function returns,
\* on every exit path: the File of read_number_from_file is closed after Ok,
\* after a read failure and after a parse failure; each span is exited when
\* its function returns, nested_compute before compute before main, and the
\* span stack is empty at the end of the program.
C6_ScopedRelease ==
    /\ \A p \in NumberPrograms \cup ContentsPrograms :
          /\ handles[p] \in {0, 1}
          /\ Returned(p) => handles[p] = 0
    /\ pc["span"] \in {"compute_return", "main_return", "done"} =>
          OpenSpans(spanLog, Len(spanLog)) = spanStack
    /\ pc["span"] = "compute_return" => spanStack = <<"main", "compute">>
    /\ pc["span"] = "main_return" => spanStack = <<"main">>
    /\ pc["span"] = "done" =>
          /\ spanStack = <<>>
          /\ ExitsOf(spanLog) =
                << [kind |-> "exit", name |-> "nested_compute"],
                   [kind |-> "exit", name |-> "compute"],
                   [kind |-> "exit", name |-> "main"] >>

\* read_number_from_file returned early from a read failure, its File closed
C6_Witness ==
    /\ pc["custom_error"] = "print"
    /\ dataFile.state = "unreadable"
    /\ steps["custom_error"] = <<"open", "read">>
    /\ ~result["custom_error"].ok
    /\ handles["custom_error"] = 0

\* the text without its leading and trailing whitespace, by position
NonBlank(cs) == {i \in 1..Len(cs) : cs[i] \notin {" ", "\n", "\t", "\r"}}
Least(S) == CHOOSE i \in S : \A j \in S : i <= j
Greatest(S) == CHOOSE i \in S : \A j \in S : j <= i
Trimmed(cs) ==
    IF NonBlank(cs) = {} THEN <<>>
    ELSE SubSeq(cs, Least(NonBlank(cs)), Greatest(NonBlank(cs)))

DigitChars == {"0", "1", "2", "3", "4", "5", "6", "7", "8", "9"}

\* digit strings of equal length compared as numbers
RECURSIVE DigitsLeq(_, _)
DigitsLeq(a, b) ==
    IF a = <<>> THEN TRUE
    ELSE IF a[1] # b[1]
         THEN (CHOOSE d \in 1..10 : Digit[d] = a[1])
                 < (CHOOSE d \in 1..10 : Digit[d] = b[1])
         ELSE DigitsLeq(Tail(a), Tail(b))

\* t is a decimal i32 literal: an optional sign, then digits, in range
\* (the inputs have no leading zeros, so ten digits decide the range)
IsI32Literal(t) ==
    /\ t # <<>>
    /\ LET digits == IF t[1] \in {"+", "-"} THEN Tail(t) ELSE t IN
       /\ digits # <<>>
       /\ \A i \in 1..Len(digits) : digits[i] \in DigitChars
       /\ \/ Len(digits) < 10
          \/ /\ Len(digits) = 10
             /\ DigitsLeq(digits,
                   IF t[1] = "-"
                   THEN <<"2", "1", "4", "7", "4", "8", "3", "6", "4", "8">>
                   ELSE <<"2", "1", "4", "7", "4", "8", "3", "6", "4", "7">>)

\* the literal as Display prints the number: without the plus sign
Canonical(t) == IF t[1] = "+" THEN Tail(t) ELSE t

StepOrder == <<"open", "read", "parse">>

\* C7: in read_number_from_file of custom_error.rs the steps open, read,
\* parse run in that order; the first step that fails ends the function with
\* that step's error and no later step is attempted (open or read failure
\* gives MyError::Io, parse failure MyError::Parse); when all succeed the
\* result is the integer value of the trimmed contents, and "42\n" makes the
\* demo print "Number: 42".
C7_EarlyReturn ==
    LET p == "custom_error" IN
    /\ steps[p] = SubSeq(StepOrder, 1, Len(steps[p]))
    /\ Returned(p) =>
          CASE dataFile.state = "missing" ->
                  /\ steps[p] = <<"open">>
                  /\ ~result[p].ok
                  /\ result[p].error.variant = "Io"
            [] dataFile.state = "unreadable" ->
                  /\ steps[p] = <<"open", "read">>
                  /\ ~result[p].ok
                  /\ result[p].error.variant = "Io"
            [] dataFile.state = "text" ->
                  /\ steps[p] = StepOrder
                  /\ IF IsI32Literal(Trimmed(dataFile.contents))
                     THEN /\ result[p].ok
                          /\ I32ToString(result[p].value) =
                                Str(Canonical(Trimmed(dataFile.contents)))
                     ELSE /\ ~result[p].ok
                          /\ result[p].error.variant = "Parse"
    /\ (pc[p] = "done" /\ dataFile.state = "text"
           /\ dataFile.contents = <<"4", "2", "\n">>) =>
          /\ stdout[p] = <<"Number: 42">>
          /\ stderr[p] = <<>>

\* the demo has printed the number of a file with surrounding whitespace
C7_Witness ==
    /\ pc["custom_error"] = "done"
    /\ dataFile.state = "text"
    /\ dataFile.contents = <<" ", "-", "4", "\n">>
    /\ stdout["custom_error"] = <<"Number: -4">>

\* the step at which the function of program p failed
FailedStep(p) == steps[p][Len(steps[p])]

\* C8: for every state of data.txt the read_number_from_file renditions of
\* custom_error.rs, without_box_dyn.rs and context.rs agree: all return Ok
\* with the same number or all fail at the same step; the `?` rendition and
\* the explicit-match rendition of read_file_contents return the same result.
C8_EquivalentRenditions ==
    /\ \A p, q \in NumberPrograms :
          (Returned(p) /\ Returned(q)) =>
             /\ result[p].ok = result[q].ok
             /\ result[p].ok => result[p].value = result[q].value
             /\ ~result[p].ok => FailedStep(p) = FailedStep(q)
    /\ (Returned("result_question") /\ Returned("result_without_question")) =>
          result["result_question"] = result["result_without_question"]

\* the three renditions have all returned the number of a text that needs
\* trimming
C8_Witness ==
    /\ \A p \in NumberPrograms : pc[p] = "done" /\ result[p].ok
    /\ dataFile.contents = <<"4", "2", "\n">>
    /\ result["context"].value = 42

-----------------------------------------------------------------------------
(* Properties: exit codes and name validation                              *)

\* C9: every run that ends in an explicit error (a failure line was written
\* to stderr) terminates with a non-zero exit code; exit code 0 occurs only
\* on runs that succeed.
C9_ExitCodes ==
    \A p \in Programs :
        pc[p] = "done" => (stderr[p] # <<>> => exitCode[p] # 0)

\* C10: validate_name accepts a name if and only if it has at least 3
\* characters; for a shorter name parsing fails with "Name must be at least
\* 3 characters long" and no greeting is printed; for an accepted name the
\* greeting is printed with that exact name.
C10_NameValidation ==
    LET p == "validation"
        accepted == pc[p] = "greet" \/ (pc[p] = "done" /\ exitCode[p] = 0)
        rejected == pc[p] = "done" /\ exitCode[p] # 0
    IN
    /\ accepted => Len(argv.name) >= 3
    /\ rejected =>
          /\ Len(argv.name) < 3
          /\ stdout[p] = <<>>
          /\ stderr[p] = <<"error: invalid value '" \o Str(argv.name)
                \o "' for '<NAME>': Name must be at least 3 characters long">>
    /\ (pc[p] = "done" /\ exitCode[p] = 0) =>
          stdout[p] = <<"Hello, " \o Str(argv.name) \o "!">>

-----------------------------------------------------------------------------
(* Properties: configuration path precedence                               *)

\* program p reported exactly the path: one line, on stdout when the path
\* exists and on stderr when it does not
Reports(p, path) ==
    \/ /\ stdout[p] = <<"Using configuration file at: " \o path>>
       /\ stderr[p] = <<>>
    \/ /\ stdout[p] = <<>>
       /\ stderr[p] = <<"Configuration file not found at: " \o path>>

\* what CONFIG_PATH holds when the variable is set, else the default path
SetValueOrDefault ==
    IF envVar.state # "unset" THEN envVar.value ELSE DefaultConfigPath

\* C11: var_override reports the --config value whenever --config is given,
\* otherwise the value of CONFIG_PATH when that variable is set, otherwise
\* /etc/myapp/config; var.rs reports /etc/myapp/config when CONFIG_PATH is
\* unset and the CONFIG_PATH value when it is set.
C11_ConfigPrecedence ==
    /\ pc["var_override"] = "done" =>
          Reports("var_override",
                  IF argv.config # <<>> THEN argv.config[1]
                  ELSE SetValueOrDefault)
    /\ pc["var"] = "done" => Reports("var", SetValueOrDefault)

-----------------------------------------------------------------------------
(* Properties: greet-cli                                                   *)

\* the number a text of decimal digits denotes
RECURSIVE DecimalValue(_)
DecimalValue(cs) ==
    IF cs = <<>> THEN 0
    ELSE 10 * DecimalValue(SubSeq(cs, 1, Len(cs) - 1))
         + (CHOOSE d \in 0..9 : Digit[d + 1] = cs[Len(cs)])

\* the grammar accepts the command line: a name, and no count or a count
\* that is a decimal number of 0..255
GrammarAccepts ==
    /\ input.name # <<>>
    /\ input.count # <<>> =>
          /\ \A i \in 1..Len(input.count[1]) : input.count[1][i] \in DigitChars
          /\ DecimalValue(input.count[1]) <= 255

\* C12: for every name S and every count N the grammar accepts, greet-cli
\* prints exactly N lines "Hello, S!" and nothing else on stdout; N is 1
\* when --count is absent; --name Alice --count 3 prints three lines
\* "Hello, Alice!".
C12_Greet ==
    LET p == "greet_cli"
        N == IF input.count = <<>> THEN 1 ELSE DecimalValue(input.count[1])
    IN
    (suite = p /\ pc[p] = "done") =>
        /\ GrammarAccepts <=> exitCode[p] = 0
        /\ GrammarAccepts =>
              stdout[p] = [i \in 1..N |-> "Hello, " \o input.name[1] \o "!"]
        /\ input = [name |-> <<"Alice">>, count |-> <<<<"3">>>>] =>
              stdout[p] = <<"Hello, Alice!", "Hello, Alice!", "Hello, Alice!">>

C12_Witness ==
    /\ pc["greet_cli"] = "done"
    /\ input = [name |-> <<"Alice">>, count |-> <<<<"3">>>>]
    /\ Len(stdout["greet_cli"]) = 3

-----------------------------------------------------------------------------
(* Properties: partition, sort and fold demos                              *)

Occurrences(xs, v) == Cardinality({i \in DOMAIN xs : xs[i] = v})

\* ys holds the elements of xs, each as many times as xs does
IsPermutation(xs, ys) ==
    /\ Len(xs) = Len(ys)
    /\ \A i \in DOMAIN xs : Occurrences(xs, xs[i]) = Occurrences(ys, xs[i])

IsEven(n) == \E k \in {n \div 2} : n = k + k

\* out = (ts, fs) splits xs by the set of the elements with the property
SplitsBy(xs, out, satisfying) ==
    /\ IsPermutation(xs, out[1] \o out[2])
    /\ \A i \in DOMAIN out[1] : out[1][i] \in satisfying
    /\ \A i \in DOMAIN out[2] : out[2][i] \notin satisfying

\* C13: for every input xs, partition_even_odd (p: the number is even) and
\* partition_by_length (p: the word is shorter than 5 characters) return
\* (ts, fs) such that ts followed by fs is a permutation of xs, every
\* element of ts satisfies p and no element of fs satisfies p.
C13_Partition ==
    /\ pc["partition_odd"] = "done" =>
          SplitsBy(input, output["partition_odd"],
                   {n \in PartitionNumbers : IsEven(n)})
    /\ pc["partition_strings"] = "done" =>
          SplitsBy(input, output["partition_strings"],
                   {word \in PartitionWords : Len(word) < 5})

\* out is xs sorted by key: a permutation, ascending by the key, and the
\* elements of each key in the order they have in xs
StablySorted(xs, out, key) ==
    /\ IsPermutation(xs, out)
    /\ \A i, j \in DOMAIN out : i < j => key[out[i]] <= key[out[j]]
    /\ \A k \in {key[e] : e \in Elements(xs)} :
          SelectSeq(out, LAMBDA e : key[e] = k)
              = SelectSeq(xs, LAMBDA e : key[e] = k)

\* C14: for every input list the sort_by demos (pairs sorted by the second
\* field, persons sorted by age) produce a permutation of the input that is
\* ascending by the key, and elements with equal keys keep the relative
\* order they have in the input.
C14_StableSort ==
    /\ pc["sort_by"] = "done" =>
          StablySorted(input, output["sort_by"],
                       [e \in SortItems |-> e[2]])
    /\ pc["sort_closure"] = "done" =>
          StablySorted(input, output["sort_closure"],
                       [e \in SortPeople |-> e.age])

C14_Witness ==
    /\ pc["sort_by"] = "done"
    /\ input = <<<<"orange", 2>>, <<"banana", 1>>, <<"apple", 2>>>>
    /\ output["sort_by"] = <<<<"banana", 1>>, <<"orange", 2>>, <<"apple", 2>>>>
    /\ stdout["sort_by"] = <<"[(\"banana\", 1), (\"orange\", 2), (\"apple\", 2)]">>

\* the words joined with a single space
RECURSIVE JoinSpace(_)
JoinSpace(words) ==
    IF words = <<>> THEN <<>>
    ELSE IF Len(words) = 1 THEN words[1]
    ELSE words[1] \o <<" ">> \o JoinSpace(Tail(words))

-----------------------------------------------------------------------------
(* Properties: optional and fallible values                                *)

LawValues == {0, 30}
LawOptions == {None, Some(0), Some(60)}
LawErrors == {"Failed", "Empty"}

\* the five laws, for the values, options and functions over LawValues,
\* LawOptions and LawErrors
CombinatorLaws ==
    /\ \A f \in [LawValues -> LawOptions] :
          /\ \A x \in LawValues : AndThen(Some(x), f) = f[x]
          /\ AndThen(None, f) = None
    /\ \A g \in LawOptions : OrElse(None, g) = g
    /\ \A d \in LawValues : UnwrapOr(None, d) = d
    /\ \A f \in [LawErrors -> LawErrors] :
          \A e \in LawErrors : MapErr(Err(e), f) = Err(f[e])

\* C16: and_then(Some(x), f) = f(x); and_then(None, f) = None;
\* or_else(None, g) = g(); unwrap_or(None, d) = d; map_err(Err(e), f) =
\* Err(f(e)); hence double_age(id) is None exactly when id = 1 and Some(60)
\* otherwise, and get_user_age(id).or_else(get_default_age) is Some(25)
\* exactly when id = 1 and Some(30) otherwise.
C16_Combinators ==
    /\ CombinatorLaws
    /\ pc["and_then"] = "done" =>
          output["and_then"] = (IF input = 1 THEN None ELSE Some(60))
    /\ pc["or_else"] = "done" =>
          output["or_else"] = (IF input = 1 THEN Some(25) ELSE Some(30))
    /\ (pc["unwrap_or"] = "done" /\ input.age = None) =>
          /\ output["unwrap_or"] = input.fallback
          /\ stdout["unwrap_or"][1] = IntToString(input.fallback)
    /\ (pc["map_err"] = "done" /\ ~ParseU32(input).ok) =>
          output["map_err"] = Err("Failed to parse '" \o Str(input) \o "'")

C16_Witness ==
    \/ pc["and_then"] = "done" /\ input = 1 /\ output["and_then"] = None
    \/ pc["or_else"] = "done" /\ input = 1 /\ output["or_else"] = Some(25)

-----------------------------------------------------------------------------
(* Properties: chapter-1 random number, arithmetic and JSON                *)

\* C17: for every state of the generator the produced value n is an integer
\* with 1 <= n <= 100 that fits the u8 it is stored in; both bounds are
\* produced (by the least and by the greatest word); the assertion of the
\* test never fails.
C17_RandomInRange ==
    /\ pc["my_rand_project"] = "done" =>
          LET n == output["my_rand_project"] IN
          /\ n \in 1..100
          /\ n <= 255
          /\ stdout["my_rand_project"]
                = <<"Random number with SmallRng: " \o IntToString(n)>>
          /\ input = 0 => n = 1
          /\ input = 2^RngBits - 1 => n = 100
    /\ pc["rand_test"] = "done" =>
          /\ output["rand_test"] \in 1..100
          /\ exitCode["rand_test"] = 0

C17_Witness ==
    /\ pc["my_rand_project"] = "done"
    /\ output["my_rand_project"] = 100

\* C18 (as stated): for every pair of machine-sized unsigned integers add
\* returns their arithmetic sum left + right (add(2, 2) = 4) and never a
\* value different from the mathematical sum.
C18_AddIsSum ==
    pc["core_lib"] = "done" =>
        output["core_lib"] = Ok(input.left + input.right)

\* C18 (amended): add returns left + right whenever the sum fits usize
\* (add(2, 2) = 4); when it does not fit, add panics in a build with
\* overflow checks and returns the sum reduced modulo 2^bits in one without.
C18_AddWithinRange ==
    pc["core_lib"] = "done" =>
        LET sum == input.left + input.right
            out == output["core_lib"]
        IN
        /\ sum < 2^UsizeBits => out = Ok(sum)
        /\ (input.left = 2 /\ input.right = 2) => out = Ok(4)
        /\ (sum >= 2^UsizeBits /\ input.overflow_checks) =>
              ~out.ok /\ exitCode["core_lib"] = 101
        /\ (sum >= 2^UsizeBits /\ ~input.overflow_checks) =>
              out = Ok(sum - 2^UsizeBits)

C18_Witness ==
    /\ pc["core_lib"] = "done"
    /\ input = [left |-> 2^UsizeBits - 1, right |-> 1,
                overflow_checks |-> FALSE]
    /\ output["core_lib"] = Ok(0)

\* C19: for every User with a name that needs no escaping and every age in
\* 0..=255, to_json returns exactly {"name":"<name>","age":<age>}: the name
\* key before the age key, no whitespace, the age as a decimal number;
\* User{name: "Alice", age: 30} gives {"name":"Alice","age":30}.
C19_UserJson ==
    pc["my_user_library"] = "done" =>
        LET json == output["my_user_library"]
            plain == \A i \in DOMAIN input.name :
                         input.name[i] \notin {"\"", "\\", "\n"}
        IN
        /\ plain => json = "{\"name\":\"" \o Str(input.name) \o "\",\"age\":"
                               \o NatToString(input.age) \o "}"
        /\ input = [name |-> <<"A", "l", "i", "c", "e">>, age |-> 30] =>
              json = "{\"name\":\"Alice\",\"age\":30}"

C19_Witness ==
    /\ pc["my_user_library"] = "done"
    /\ input = [name |-> <<"A", "l", "i", "c", "e">>, age |-> 30]
    /\ output["my_user_library"] = "{\"name\":\"Alice\",\"age\":30}"

-----------------------------------------------------------------------------
(* Properties: the fallible and_then chain                                 *)

\* t parses as a u32: an optional plus sign, then digits, at most u32::MAX
\* (the ten-digit inputs have no leading zeros, so ten digits decide)
IsU32Literal(t) ==
    /\ t # <<>>
    /\ LET digits == IF t[1] = "+" THEN Tail(t) ELSE t IN
       /\ digits # <<>>
       /\ \A i \in 1..Len(digits) : digits[i] \in DigitChars
       /\ \/ Len(digits) < 10
          \/ /\ Len(digits) = 10
             /\ DigitsLeq(digits,
                          <<"4", "2", "9", "4", "9", "6", "7", "2", "9", "5">>)

\* the number a u32 literal denotes
U32Value(t) == DecimalValue(IF t[1] = "+" THEN Tail(t) ELSE t)

\* C20: parse_and_divide returns Ok(n / d) if and only if the numerator
\* parses as u32 n, the denominator parses as u32 d and d is not 0;
\* otherwise the error is that of the first failing step in the order
\* numerator parse, denominator parse, division: "Invalid numerator"
\* whenever the numerator is unparsable (the denominator is then never
\* parsed), "Invalid denominator" only when the numerator parses, and
\* "Division by zero" only when both parse and d = 0.
C20_ParseAndDivide ==
    pc["and_then_result"] = "done" =>
        LET out == output["and_then_result"]
            numOk == IsU32Literal(input.numerator)
            denOk == IsU32Literal(input.denominator)
        IN
        /\ out.result.ok <=>
              (numOk /\ denOk /\ U32Value(input.denominator) # 0)
        /\ out.result.ok =>
              out.result.value
                 = U32Value(input.numerator) \div U32Value(input.denominator)
        /\ ~numOk =>
              /\ out.result = Err("Invalid numerator")
              /\ "denominator" \notin Elements(out.calls)
        /\ out.result = Err("Invalid denominator") <=> (numOk /\ ~denOk)
        /\ out.result = Err("Division by zero") <=>
              (numOk /\ denOk /\ U32Value(input.denominator) = 0)
        /\ stdout["and_then_result"] = <<DebugResult(out.result)>>

C20_Witness ==
    /\ pc["and_then_result"] = "done"
    /\ ~IsU32Literal(input.numerator)
    /\ ~IsU32Literal(input.denominator)
    /\ output["and_then_result"].result = Err("Invalid numerator")

-----------------------------------------------------------------------------

Init ==
    /\ suite \in Suites
    /\ pc = [p \in Programs |->
                IF p \in ProgramsOf(suite) THEN "start" ELSE "idle"]
    /\ stdout = [p \in Programs |-> <<>>]
    /\ stderr = [p \in Programs |-> <<>>]
    /\ exitCode = [p \in Programs |-> NoExit]
    /\ rotated = <<>>
    /\ active = <<>>
    /\ written = 0
    /\ clock = 0
    /\ duplicated = 0
    /\ dir \in (IF suite = "collector" THEN DirStates ELSE {NoDir})
    /\ files = <<>>
    /\ cursor = 0
    /\ getFiles = "none"
    /\ shown = 0
    /\ spanStack = <<>>
    /\ spanLog = <<>>
    /\ dataFile \in (IF suite \in {"read_number", "read_contents"}
                     THEN DataFiles ELSE {MissingFile})
    /\ handles = [p \in Programs |-> 0]
    /\ buffer = [p \in Programs |-> <<>>]
    /\ steps = [p \in Programs |-> <<>>]
    /\ result = [p \in Programs |-> NoResult]
    /\ argv \in (CASE suite = "validation" -> ValidationArgs
                   [] suite = "config" -> ConfigArgs
                   [] OTHER -> {NoArgs})
    /\ envVar \in (IF suite = "config" THEN EnvStates ELSE {NoEnv})
    /\ existing \in (IF suite = "config" THEN SUBSET Paths ELSE {{}})
    /\ cli = NoCli
    /\ configPath = [p \in Programs |-> ""]
    /\ input \in InputsOf(suite)
    /\ args = NoGreetArgs
    /\ iter = 0
    /\ output = [p \in Programs |-> NoOutput]

Next ==
    \/ LoggerNext
    \/ CollectorNext
    \/ SpanNext
    \/ CustomErrorNext
    \/ WithoutBoxDynNext
    \/ ContextNext
    \/ ResultQuestionNext
    \/ ResultWithoutQuestionNext
    \/ ValidationNext
    \/ ConfigNext
    \/ DemoNext

Spec == Init /\ [][Next]_vars

=============================================================================
